---- MODULE Spec2Model ----
(***************************************************************************)
(* Model of the nemo_docs summary workflow: main() of src/main.py driving  *)
(* the git helpers and the GitHubClient of src/github_client.py against a  *)
(* remote repository, a forge (pull requests) and a local workspace.       *)
(*                                                                         *)
(* One action per step of main(); a helper that issues several git         *)
(* commands is split at each command, because every command can raise and  *)
(* abort the run there.  A git command is an operator from the local       *)
(* repository record to [ok, r]: whether it exits 0 and the repository it  *)
(* leaves behind.                                                          *)
(***************************************************************************)
EXTENDS Integers, Sequences, FiniteSets, TLC

(* ------------------------------ bounds -------------------------------- *)
MaxRuns == 2        \* runs of main() in one behaviour
MaxFail == 1        \* environment-caused command failures in one behaviour
MaxExt == 1         \* steps of other actors on the remote in one behaviour
MaxContent == 2     \* distinct file contents 1..MaxContent (0 = no file)
MaxTail == 2        \* characters of a token after its prefix
MaxDepth == 2       \* directories between the root and a file
MaxFiles == 2       \* files in a directory tree

(* ------------------------------ constants ----------------------------- *)
Files == {"art", "trk", "unt"}   \* summary.txt, a tracked file, a stray file
EmptyTree == [f \in Files |-> 0]
Contents == 1..MaxContent

VARIABLES
    env,        \* environment values: which of them are set
    remote,     \* [base, work]: branch tips on origin (No = no such branch)
    prOpen,     \* number of open pull requests for (WORK_BRANCH, default)
    repo,       \* the local workspace and repository
    pc,         \* position of main()
    run,        \* number of the current run
    summary,    \* summary_content of main() (0 = None)
    exists,     \* branch_exists_remotely of push_branch
    ev,         \* what this run has done so far (history)
    fails,      \* environment-caused failures so far
    exts,       \* steps of other actors so far
    hist,       \* values remembered for the properties (history)
    default_branch, \* default_branch of main() ("" = not assigned yet)
    call        \* a method of the client applied to one input, with its result

vars == <<env, remote, prOpen, repo, pc, run, summary, exists,
          ev, fails, exts, hist, default_branch, call>>

(* ------------------------------ commits ------------------------------- *)
\* A commit is its parent, its tree, who made it and a stamp that tells
\* apart two commits of the same author with the same tree (the commit
\* time); No stands for "no commit": an absent ref, the parent of a root.
No == [by |-> "none"]
NewCommit(parent, tree, by, n) ==
    [parent |-> parent, tree |-> tree, by |-> by, n |-> n]

Parent(c) == c.parent
TreeOf(c) == IF c = No THEN EmptyTree ELSE c.tree

RECURSIVE IsAncestor(_, _)
IsAncestor(a, b) ==
    IF b = No THEN a = No
    ELSE a = b \/ IsAncestor(a, Parent(b))

ChangedPaths(c) == {f \in Files : TreeOf(c)[f] # TreeOf(Parent(c))[f]}

\* some commit on the way from c to the root was made in the workspace
RECURSIVE HasLocal(_)
HasLocal(c) == c # No /\ (c.by \in {"local", "run"} \/ HasLocal(Parent(c)))

(* --------------------------- local repository ------------------------- *)
HeadCommit(r) ==
    CASE r.head = "base" -> r.base
      [] r.head = "work" -> r.work
      [] r.head = "detached" -> r.det
      [] OTHER -> No

HeadTree(r) == TreeOf(HeadCommit(r))

\* git refuses to run in a directory that is not a repository, or one owned
\* by another user that is not registered as safe.directory
Usable(r) == r.isRepo /\ ~r.dubious

\* moving the work tree from tree `from` to tree `to` keeps local changes of
\* paths the two trees agree on and refuses to overwrite any other change
SwitchOK(r, from, to) ==
    \A f \in Files : from[f] # to[f] => (r.idx[f] = from[f] /\ r.wt[f] = from[f])

SwitchTo(r, from, to) ==
    [r EXCEPT !.idx = [f \in Files |-> IF from[f] # to[f] THEN to[f] ELSE r.idx[f]],
              !.wt = [f \in Files |-> IF from[f] # to[f] THEN to[f] ELSE r.wt[f]]]

Ok(r) == [ok |-> TRUE, r |-> r]
Err(r) == [ok |-> FALSE, r |-> r]

(* ----------------------------- git commands --------------------------- *)
\* the branch ref HEAD names moves to commit c
MoveHead(r, c) ==
    CASE r.head = "base" -> [r EXCEPT !.base = c]
      [] r.head = "work" -> [r EXCEPT !.work = c]
      [] OTHER -> [r EXCEPT !.det = c, !.head = "detached"]

\* git rev-parse --is-inside-work-tree
git_rev_parse(r) == IF Usable(r) THEN Ok(r) ELSE Err(r)

\* git config --global --add safe.directory <cwd>
git_safe_directory(r) == Ok([r EXCEPT !.dubious = FALSE])

\* git init: a new repository has an unborn HEAD and an empty index
git_init(r) ==
    IF r.dubious THEN Err(r)
    ELSE IF r.isRepo THEN Ok(r)
    ELSE Ok([r EXCEPT !.isRepo = TRUE, !.head = "unborn", !.idx = EmptyTree])

\* git remote add origin <url>: refused when the remote is already there
git_remote_add(r) ==
    IF Usable(r) /\ ~r.hasOrigin THEN Ok([r EXCEPT !.hasOrigin = TRUE]) ELSE Err(r)

\* git remote set-url origin <url>: refused when there is no such remote
git_remote_set_url(r) == IF Usable(r) /\ r.hasOrigin THEN Ok(r) ELSE Err(r)

\* git config --local user.name / user.email
git_config_local(r) == IF Usable(r) THEN Ok(r) ELSE Err(r)

\* git fetch origin <br>: the remote-tracking ref follows the remote tip;
\* fails when the remote has no such branch
git_fetch(r, br) ==
    IF ~Usable(r) \/ ~r.hasOrigin \/ remote[br] = No THEN Err(r)
    ELSE IF br = "base" THEN Ok([r EXCEPT !.obase = remote.base])
    ELSE Ok([r EXCEPT !.owork = remote.work])

\* git checkout <base>: an absent local branch is created from origin/<base>
git_checkout(r) ==
    LET target == IF r.base # No THEN r.base ELSE r.obase IN
    IF ~Usable(r) \/ target = No \/ ~SwitchOK(r, HeadTree(r), TreeOf(target))
    THEN Err(r)
    ELSE Ok([SwitchTo(r, HeadTree(r), TreeOf(target))
                EXCEPT !.head = "base", !.base = target])

\* (variant) the reset is left out, as in the earlier revision of the helper
git_reset_skipped(r) == IF ~Usable(r) \/ r.obase = No THEN Err(r) ELSE Ok(r)

\* git reset --hard origin/<base>: the current branch, the index and every
\* tracked path follow origin/<base>; untracked paths it does not name stay
git_reset_hard(r) ==
    LET to == TreeOf(r.obase)
        old == HeadTree(r) IN
    IF ~Usable(r) \/ r.obase = No THEN Err(r)
    ELSE Ok([MoveHead(r, r.obase) EXCEPT
               !.idx = to,
               !.wt = [f \in Files |->
                         IF to[f] # 0 THEN to[f]
                         ELSE IF r.idx[f] # 0 \/ old[f] # 0 THEN 0
                         ELSE r.wt[f]]])

\* git pull origin <base>: fetch, then fast-forward HEAD (a diverged HEAD
\* is not reconciled); the fetch half has happened even when the merge fails
git_pull(r) ==
    LET f == git_fetch(r, "base")
        h == HeadCommit(f.r)
        t == remote.base IN
    IF ~f.ok THEN Err(r)
    ELSE IF IsAncestor(t, h) THEN Ok(f.r)
    ELSE IF IsAncestor(h, t) /\ SwitchOK(f.r, TreeOf(h), TreeOf(t))
         THEN Ok(MoveHead(SwitchTo(f.r, TreeOf(h), TreeOf(t)), t))
    ELSE Err(f.r)

\* (variant) git checkout <br>, creating it only when absent: an existing
\* branch is checked out where it is, not reset
git_checkout_keep(r, br) ==
    LET cur == IF br = "base" THEN r.base ELSE r.work
        target == IF cur # No THEN cur ELSE r.obase IN
    IF ~Usable(r) \/ target = No \/ ~SwitchOK(r, HeadTree(r), TreeOf(target))
    THEN Err(r)
    ELSE LET s == SwitchTo(r, HeadTree(r), TreeOf(target)) IN
         IF br = "base" THEN Ok([s EXCEPT !.head = "base", !.base = target])
         ELSE Ok([s EXCEPT !.head = "work", !.work = target])

\* git checkout -B <br> origin/<base>: create or reset <br> at origin/<base>
git_checkout_B(r, br) ==
    IF ~Usable(r) \/ r.obase = No \/ ~SwitchOK(r, HeadTree(r), TreeOf(r.obase))
    THEN Err(r)
    ELSE LET s == SwitchTo(r, HeadTree(r), TreeOf(r.obase)) IN
         IF br = "base" THEN Ok([s EXCEPT !.head = "base", !.base = r.obase])
         ELSE Ok([s EXCEPT !.head = "work", !.work = r.obase])

\* git status --porcelain prints a line per staged, modified or untracked path
Porcelain(r) ==
    {f \in Files : r.idx[f] # HeadTree(r)[f] \/ r.wt[f] # r.idx[f]}

\* git add <paths>
git_add(r, paths) ==
    IF ~Usable(r) \/ \E f \in paths : r.wt[f] = 0 /\ r.idx[f] = 0 THEN Err(r)
    ELSE Ok([r EXCEPT !.idx = [f \in Files |->
                         IF f \in paths THEN r.wt[f] ELSE r.idx[f]]])

\* git commit -m <message>: refuses when nothing is staged
CanCommit(r) == Usable(r) /\ r.idx # HeadTree(r)

\* git push --force-with-lease: the remote tip must be the one origin/<work>
\* records; git push --force: no condition
CanPush(r, br, lease) ==
    /\ Usable(r) /\ r.hasOrigin /\ r[br] # No
    /\ lease => remote[br] = (IF br = "base" THEN r.obase ELSE r.owork)

\* the local ref state that checkout_work_branch works on
Refs(r) == <<r.head, r.base, r.work, r.obase>>

(* ------------------------------ initial states ------------------------ *)
\* environment: credential, GITHUB_REPOSITORY, LLM key, DEFAULT_BRANCH, and
\* whether the name of the default branch is WORK_BRANCH itself
EnvAll == [token |-> TRUE, repo |-> TRUE, key |-> TRUE, override |-> FALSE,
           alias |-> FALSE]
\* DEFAULT_BRANCH=nemo_docs/summary-update
EnvAlias == [EnvAll EXCEPT !.override = TRUE, !.alias = TRUE]
Envs == {EnvAll,
         [EnvAll EXCEPT !.token = FALSE],
         [EnvAll EXCEPT !.repo = FALSE],
         [EnvAll EXCEPT !.key = FALSE],
         [EnvAll EXCEPT !.override = TRUE]}

\* the default branch holds a tracked file and may already hold summary.txt
RootTree(a) == [art |-> a, trk |-> 1, unt |-> 0]

\* the default-branch tip; the artifact commit an earlier run made on the
\* work branch; drift on the local default branch (a changed tracked file)
Root(a) == NewCommit(No, RootTree(a), "base", 0)
Stale(a) == NewCommit(Root(a), [RootTree(a) EXCEPT !.art = MaxContent], "run", 0)
Drift(a) == NewCommit(Root(a), [RootTree(a) EXCEPT !.trk = 2], "local", 0)

NoRepo == [isRepo |-> FALSE, dubious |-> FALSE, hasOrigin |-> FALSE,
           head |-> "unborn", det |-> No, base |-> No, work |-> No,
           obase |-> No, owork |-> No, idx |-> EmptyTree, wt |-> EmptyTree]

\* a directory in which git init has been run and nothing else
Bare == [NoRepo EXCEPT !.isRepo = TRUE]

\* a checkout of the default branch, as the CI checkout step leaves it
Clone(a) == [NoRepo EXCEPT !.isRepo = TRUE, !.hasOrigin = TRUE, !.head = "base",
                           !.base = Root(a), !.obase = Root(a),
                           !.idx = RootTree(a), !.wt = RootTree(a)]

\* a workspace an earlier run left: drift on the local default branch and a
\* stale artifact commit on the local work branch, which is checked out
Drifted(a) == [Clone(a) EXCEPT !.head = "work", !.base = Drift(a),
                               !.work = Stale(a),
                               !.idx = [RootTree(a) EXCEPT !.art = MaxContent],
                               !.wt = [RootTree(a) EXCEPT !.art = MaxContent]]

\* a detached checkout (a pull-request build): no local default branch
Detached(a) == [Clone(a) EXCEPT !.head = "detached", !.det = Root(a),
                                !.base = No]

\* files lying in the workspace that are unrelated to the artifact
Dirty(r, d) ==
    CASE d = "untracked" -> [r EXCEPT !.wt.unt = 1]
      [] d = "modified" -> [r EXCEPT !.wt.trk = 2]
      [] d = "staged" -> [r EXCEPT !.wt.unt = 1, !.idx.unt = 1]
      [] OTHER -> r

InitRepos(a) ==
    {NoRepo, Dirty(NoRepo, "untracked"), Bare, [Clone(a) EXCEPT !.dubious = TRUE]}
    \cup {Dirty(Clone(a), d) : d \in {"clean", "untracked", "modified", "staged"}}
    \cup {Dirty(Drifted(a), d) : d \in {"clean", "untracked"}}
    \cup {Detached(a)}

NoCall == [fn |-> "none"]

Init ==
    /\ \E a \in {0, 1} :
         /\ repo \in InitRepos(a)
         /\ remote \in {[base |-> Root(a), work |-> w] : w \in {No, Stale(a)}}
    /\ prOpen \in {0, 1}
    /\ prOpen = 1 => remote.work # No
    /\ env \in Envs
    /\ env # EnvAll => repo = Clone(0) /\ prOpen = 0
    /\ pc = "env"
    /\ run = 1
    /\ summary = 0
    /\ exists = TRUE
    /\ ev = {}
    /\ fails = 0
    /\ exts = 0
    /\ hist = [prAtStart |-> prOpen, snap |-> <<>>, made |-> No, pre |-> 0,
               pushed |-> "no", seen |-> No, lost |-> FALSE, prev |-> "none",
               before |-> <<>>, fetched |-> No, old |-> Refs(repo),
               probes |-> 0, safedirs |-> 0, creates |-> 0, title |-> "",
               rbase |-> remote.base]
    /\ default_branch = ""
    /\ call = NoCall

(* ------------------------------ main() -------------------------------- *)
\* main.py 22-24 and 120: the fixed names main() works with; the path "art"
\* of the model's trees is target_path
WORK_BRANCH == "nemo_docs/summary-update"
PR_TITLE == "nemo_docs: Update repository summary"
target_path == "summary.txt"

Terminal == {"noop", "reused", "created", "fatal"}
Success == {"noop", "reused", "created"}

\* a command or request may fail for a reason of the environment (network,
\* disk, rate limit), a bounded number of times
Inj == IF fails < MaxFail THEN BOOLEAN ELSE {FALSE}
Count(inj) == IF inj THEN 1 ELSE 0
Blame(inj) == IF inj THEN {"inj"} ELSE {}

\* (variant) the exit code is not looked at
run_git_unchecked(ok, next) == next

\* run_git raises CalledProcessError on a non-zero exit; main() catches
\* nothing, so the process dies there
run_git(ok, next) == IF ok THEN next ELSE "fatal"

\* (variant) the status of the response is not looked at
raise_for_status_ignored(ok, next) == next

\* resp.raise_for_status() of the forge client, uncaught in main()
raise_for_status(ok, next) == IF ok THEN next ELSE "fatal"

\* one run_git call of main() that only touches the local repository
RunGit(from, res, next) ==
    /\ pc = from
    /\ \E inj \in Inj :
         LET out == IF inj THEN Err(repo) ELSE res IN
         /\ repo' = out.r
         /\ pc' = run_git(out.ok, next)
         /\ ev' = IF out.ok THEN ev ELSE ev \cup {"rg_fail"} \cup Blame(inj)
         /\ fails' = fails + Count(inj)
    /\ UNCHANGED <<call, default_branch, env, remote, prOpen, run, summary, exists, exts, hist>>

\* (variant) only the credential is asked for
require_env_token_only(e) == e.token

\* main.py 60-68: sys.exit(1) unless the credential (INPUT_GITHUB_TOKEN or
\* GITHUB_TOKEN) and GITHUB_REPOSITORY are set to a non-empty value
require_env(e) == e.token /\ e.repo

ResolveEnv ==
    /\ pc = "env"
    /\ pc' = IF require_env(env) THEN "client" ELSE "fatal"
    /\ ev' = IF require_env(env) THEN ev ELSE ev \cup {"config_error"}
    /\ UNCHANGED <<call, default_branch, env, remote, prOpen, repo, run, summary, exists,
                   fails, exts, hist>>

\* what GET /user of _validate_token can do: answer 200, answer another
\* status, or raise (network); the last two are failures of the environment
ValidationOutcomes ==
    IF fails < MaxFail THEN {"200", "non200", "exception"} ELSE {"200"}

\* (variant) an exception of the validation request leaves the constructor
validate_token_raising(out, next) == IF out = "exception" THEN "fatal" ELSE next

\* _validate_token: the whole body is inside try/except Exception, and both
\* branches on the status only print; the caller continues in every case
validate_token(out, next) == next

\* GitHubClient.__init__ (main.py 82): sets the headers, then _validate_token
NewClient ==
    /\ pc = "client"
    /\ \E out \in ValidationOutcomes :
         /\ ev' = IF out = "200" THEN ev ELSE ev \cup {"validate_fail", "inj"}
         /\ fails' = fails + Count(out # "200")
         /\ pc' = validate_token(out, "defbranch")
    /\ UNCHANGED <<call, default_branch, env, remote, prOpen, repo, run, summary, exists,
                   exts, hist>>

\* (variant) the repository is always asked
default_branch_live(e) == "live"

\* main.py 87: os.getenv("DEFAULT_BRANCH") or client.get_default_branch():
\* where the name of the base branch comes from
default_branch_source(e) == IF e.override THEN "override" ELSE "live"

ResolveDefaultBranch ==
    /\ pc = "defbranch"
    /\ IF default_branch_source(env) = "override"
       THEN /\ pc' = "probe1"
            /\ default_branch' = "override"
            /\ UNCHANGED <<ev, fails>>
       ELSE \E inj \in Inj :
            /\ pc' = raise_for_status(~inj, "probe1")
            /\ default_branch' = IF inj THEN default_branch ELSE "live"
            /\ ev' = ev \cup {"get_default_branch"}
                        \cup (IF inj THEN {"rest_fail", "inj"} ELSE {})
            /\ fails' = fails + Count(inj)
    /\ UNCHANGED <<call, env, remote, prOpen, repo, run, summary, exists,
                   exts, hist>>

\* what a failing probe prints on stderr
stderr(r, inj) ==
    IF ~inj /\ r.isRepo /\ r.dubious THEN "dubious ownership" ELSE "other"

\* (variant) every failure of the probe is remediated
remediable_always(err) == TRUE

\* is_git_repo: "dubious ownership" in stderr
remediable(err) == err = "dubious ownership"

\* is_git_repo, first probe: True; or a dubious-ownership failure, which is
\* remediated; or any other failure, which means False
Probe ==
    /\ pc = "probe1"
    /\ \E inj \in Inj :
         LET out == IF inj THEN Err(repo) ELSE git_rev_parse(repo)
             err == stderr(repo, inj) IN
         /\ pc' = IF out.ok THEN "identity"
                  ELSE IF remediable(err) THEN "safedir"
                  ELSE "init"
         /\ ev' = IF out.ok THEN ev \cup {"probe_ok"}
                  ELSE ev \cup (IF err = "dubious ownership" THEN {"dubious"} ELSE {})
                          \cup (IF pc' = "init" THEN {"probe_fail"} ELSE {})
                          \cup Blame(inj)
         /\ fails' = fails + Count(inj)
    /\ hist' = [hist EXCEPT !.probes = @ + 1]
    /\ UNCHANGED <<call, default_branch, env, remote, prOpen, repo, run, summary, exists,
                   exts>>

\* is_git_repo: register safe.directory; a failure here means False
SafeDirectory ==
    /\ pc = "safedir"
    /\ \E inj \in Inj :
         LET out == IF inj THEN Err(repo) ELSE git_safe_directory(repo) IN
         /\ repo' = out.r
         /\ pc' = IF out.ok THEN "probe2" ELSE "init"
         /\ ev' = IF out.ok THEN ev \cup {"safedir"}
                  ELSE ev \cup {"probe_fail"} \cup Blame(inj)
         /\ fails' = fails + Count(inj)
    /\ hist' = [hist EXCEPT !.safedirs = @ + 1]
    /\ UNCHANGED <<call, default_branch, env, remote, prOpen, run, summary, exists, exts>>

\* is_git_repo: the one retry of the probe
Reprobe ==
    /\ pc = "probe2"
    /\ \E inj \in Inj :
         LET out == IF inj THEN Err(repo) ELSE git_rev_parse(repo) IN
         /\ pc' = IF out.ok THEN "identity" ELSE "init"
         /\ ev' = IF out.ok THEN ev \cup {"probe_ok"}
                  ELSE ev \cup {"probe_fail"} \cup Blame(inj)
         /\ fails' = fails + Count(inj)
    /\ hist' = [hist EXCEPT !.probes = @ + 1]
    /\ UNCHANGED <<call, default_branch, env, remote, prOpen, repo, run, summary, exists,
                   exts>>

\* ensure_git_repo, when is_git_repo said False
EnsureInit == RunGit("init", git_init(repo), "remote_add")
EnsureRemoteAdd == RunGit("remote_add", git_remote_add(repo), "eg_fetch")
EnsureFetch == RunGit("eg_fetch", git_fetch(repo, "base"), "eg_checkout")
EnsureCheckout == RunGit("eg_checkout", git_checkout_B(repo, "base"), "eg_pull")
EnsurePull == RunGit("eg_pull", git_pull(repo), "identity")

\* configure_git_user (two config commands) and set_remote_with_token
ConfigureGitUser == RunGit("identity", git_config_local(repo), "set_url")
SetRemoteWithToken == RunGit("set_url", git_remote_set_url(repo), "cw_fetch")

\* the ref WORK_BRANCH names: the work branch, or the default branch when
\* the two names are one
WorkRef == IF env.alias THEN "base" ELSE "work"

\* checkout_work_branch: fetch, checkout, reset --hard, pull, checkout -B
ConvergeFetch == RunGit("cw_fetch", git_fetch(repo, "base"), "cw_checkout")
ConvergeCheckout == RunGit("cw_checkout", git_checkout(repo), "cw_reset")
ConvergeReset == RunGit("cw_reset", git_reset_hard(repo), "cw_pull")

ConvergePull ==
    /\ pc = "cw_pull"
    /\ \E inj \in Inj :
         LET out == IF inj THEN Err(repo) ELSE git_pull(repo) IN
         /\ repo' = out.r
         /\ pc' = run_git(out.ok, "cw_branch")
         /\ ev' = IF out.ok THEN ev ELSE ev \cup {"rg_fail"} \cup Blame(inj)
         /\ fails' = fails + Count(inj)
         /\ hist' = IF out.ok THEN [hist EXCEPT !.fetched = remote.base] ELSE hist
    /\ UNCHANGED <<call, default_branch, env, remote, prOpen, run, summary, exists, exts>>

ConvergeBranch ==
    /\ pc = "cw_branch"
    /\ \E inj \in Inj :
         LET out == IF inj THEN Err(repo) ELSE git_checkout_B(repo, WorkRef) IN
         /\ repo' = out.r
         /\ pc' = run_git(out.ok, "key")
         /\ ev' = IF out.ok THEN ev \cup {"converged"}
                  ELSE ev \cup {"rg_fail"} \cup Blame(inj)
         /\ fails' = fails + Count(inj)
         /\ hist' = IF out.ok
                    THEN [hist EXCEPT !.before = hist.snap,
                                      !.snap = IF remote.base = hist.fetched
                                               THEN Refs(out.r) ELSE <<>>]
                    ELSE hist
    /\ UNCHANGED <<call, default_branch, env, remote, prOpen, run, summary, exists, exts>>

\* main.py 109-112: no LLM key, no summary, exit 0
CheckKey ==
    /\ pc = "key"
    /\ pc' = IF env.key THEN "summary" ELSE "noop"
    /\ ev' = IF env.key THEN ev ELSE ev \cup {"no_key"}
    /\ UNCHANGED <<call, default_branch, env, remote, prOpen, repo, run, summary, exists,
                   fails, exts, hist>>

\* client.get_file_content(default_branch, "README.md"): the text, or raises
get_file_content == BOOLEAN

\* an exception that leaves create_summary
Raised == -1

\* create_summary: None when the README fetch or the completion call raises,
\* else the reply wrapped in the fixed template (never empty); OpenAI(...)
\* is constructed between the two try blocks, so an exception of the
\* constructor (a malformed base URL or proxy setting) is not caught
create_summary(readme, client_ok, reply) ==
    IF ~readme THEN 0
    ELSE IF ~client_ok THEN Raised
    ELSE IF reply # 0 THEN reply
    ELSE 0

\* main.py 116-119: a run without a summary ends successfully
CreateSummary ==
    /\ pc = "summary"
    /\ \E readme \in get_file_content, inj \in Inj, reply \in 0..MaxContent :
         LET out == create_summary(readme, ~inj, reply) IN
         /\ summary' = IF out = Raised THEN 0 ELSE out
         /\ pc' = IF out = Raised THEN "fatal"
                  ELSE IF out # 0 THEN "write" ELSE "noop"
         /\ ev' = IF out = Raised THEN ev \cup {"artifact_fail", "client_fail", "inj"}
                  ELSE IF out # 0 THEN ev ELSE ev \cup {"artifact_fail"}
         /\ fails' = fails + Count(out = Raised)
    /\ UNCHANGED <<call, default_branch, env, remote, prOpen, repo, run, exists, exts, hist>>

\* main.py 120-121: target_path.write_text(summary_content)
WriteSummary ==
    /\ pc = "write"
    /\ repo' = [repo EXCEPT !.wt.art = summary]
    /\ hist' = [hist EXCEPT !.pre = repo.wt.art]
    /\ ev' = ev \cup {"write"}
    /\ pc' = "status"
    /\ UNCHANGED <<call, default_branch, env, remote, prOpen, run, summary, exists, fails, exts>>

\* (variant) the work tree is never seen as changed
has_changes_never(r, failed, output) == FALSE

\* has_changes: any output of git status --porcelain counts, and the exit
\* code is not looked at (stderr is folded into stdout)
has_changes(r, failed, output) ==
    IF failed THEN output
    ELSE IF ~Usable(r) THEN TRUE
    ELSE Porcelain(r) # {}

\* main.py 124-126
HasChanges ==
    /\ pc = "status"
    /\ \E inj \in Inj, output \in BOOLEAN :
         /\ inj \/ output
         /\ pc' = IF has_changes(repo, inj, output) THEN "add" ELSE "noop"
         /\ ev' = IF inj THEN ev \cup {"status_fail", "inj"} ELSE ev
         /\ fails' = fails + Count(inj)
    /\ UNCHANGED <<call, default_branch, env, remote, prOpen, repo, run, summary, exists,
                   exts, hist>>

\* (variant) everything in the work tree is staged (git add -A)
StagedEverything == {f \in Files : repo.wt[f] # 0 \/ repo.idx[f] # 0}

\* the paths main() hands to stage_and_commit
StagedPaths == {"art"}

\* stage_and_commit: git add <paths>, then git commit
StageAdd == RunGit("add", git_add(repo, StagedPaths), "commit")

StageCommit ==
    /\ pc = "commit"
    /\ \E inj \in Inj :
         LET ok == ~inj /\ CanCommit(repo)
             id == NewCommit(HeadCommit(repo), repo.idx, "run", run) IN
         /\ repo' = IF ok THEN MoveHead(repo, id) ELSE repo
         /\ hist' = IF ok THEN [hist EXCEPT !.made = id] ELSE hist
         /\ pc' = run_git(ok, "pb_fetch")
         /\ ev' = ev \cup {"commit"}
                     \cup (IF ok THEN {} ELSE {"rg_fail"} \cup Blame(inj))
         /\ fails' = fails + Count(inj)
    /\ UNCHANGED <<call, default_branch, env, remote, prOpen, run, summary, exists, exts>>

\* push_branch, the preliminary fetch: any failure of it is read as "the
\* branch does not exist remotely yet"
PushFetch ==
    /\ pc = "pb_fetch"
    /\ \E inj \in Inj :
         LET out == IF inj THEN Err(repo) ELSE git_fetch(repo, WorkRef) IN
         /\ repo' = out.r
         /\ exists' = out.ok
         /\ ev' = IF out.ok THEN ev ELSE ev \cup {"fetch_fail"} \cup Blame(inj)
         /\ fails' = fails + Count(inj)
    /\ pc' = "pb_push"
    /\ UNCHANGED <<call, default_branch, env, remote, prOpen, run, summary, exts, hist>>

\* push_branch: which push is issued
push_mode(branch_exists_remotely) ==
    IF branch_exists_remotely THEN "lease" ELSE "force"

\* push_branch, the push itself
PushBranch ==
    /\ pc = "pb_push"
    /\ \E inj \in Inj :
         LET mode == push_mode(exists)
             br == WorkRef
             ok == ~inj /\ CanPush(repo, br, mode = "lease") IN
         /\ remote' = IF ok THEN [remote EXCEPT ![br] = repo[br]] ELSE remote
         /\ repo' = IF ~ok THEN repo
                    ELSE IF br = "base" THEN [repo EXCEPT !.obase = repo.base]
                    ELSE [repo EXCEPT !.owork = repo.work]
         /\ hist' = [hist EXCEPT
                       !.pushed = mode,
                       !.seen = remote[br],
                       !.lost = ok /\ remote[br].by = "ext"]
         /\ pc' = run_git(ok, "find_pr")
         /\ ev' = IF ok THEN ev \cup {"push"} ELSE ev \cup {"rg_fail"} \cup Blame(inj)
         /\ fails' = fails + Count(inj)
    /\ UNCHANGED <<call, default_branch, env, prOpen, run, summary, exists, exts>>

\* (variants) the search never matches; an empty list counts as a match
find_open_pr_never(open) == FALSE
find_open_pr_always(open) == TRUE

\* find_open_pr: the first open pull request of the pair, or None
find_open_pr(open) == open > 0

\* main.py 141-145
FindOpenPr ==
    /\ pc = "find_pr"
    /\ \E inj \in Inj :
         /\ pc' = IF find_open_pr(prOpen)
                  THEN raise_for_status(~inj, "reused")
                  ELSE raise_for_status(~inj, "create_pr")
         /\ ev' = ev \cup {"find_pr"}
                     \cup (IF inj THEN {"rest_fail", "inj"}
                           ELSE IF find_open_pr(prOpen) THEN {} ELSE {"find_none"})
         /\ fails' = fails + Count(inj)
    /\ UNCHANGED <<call, default_branch, env, remote, prOpen, repo, run, summary, exists,
                   exts, hist>>

\* the forge opens a pull request only for an existing head branch that has
\* no open pull request yet and is not the base branch itself (422 otherwise)
ForgeAccepts == prOpen = 0 /\ remote.work # No /\ ~env.alias

\* main.py 150: create_pr
CreatePr ==
    /\ pc = "create_pr"
    /\ \E inj \in Inj :
         LET ok == ~inj /\ ForgeAccepts IN
         /\ prOpen' = IF ok THEN prOpen + 1 ELSE prOpen
         /\ pc' = raise_for_status(ok, "created")
         /\ ev' = ev \cup {"create_pr"}
                     \cup (IF ok THEN {} ELSE {"rest_fail"} \cup Blame(inj))
         /\ fails' = fails + Count(inj)
         /\ hist' = [hist EXCEPT !.creates = @ + 1,
                                 !.title = IF ok THEN PR_TITLE ELSE @]
    /\ UNCHANGED <<call, default_branch, env, remote, repo, run, summary, exists, exts>>

\* the workflow is triggered again on the same workspace
StartRun ==
    /\ pc \in Terminal
    /\ run < MaxRuns
    /\ run' = run + 1
    /\ pc' = "env"
    /\ ev' = {}
    /\ summary' = 0
    /\ exists' = TRUE
    /\ hist' = [hist EXCEPT !.prAtStart = prOpen, !.made = No, !.pre = 0,
                            !.pushed = "no", !.seen = No, !.lost = FALSE,
                            !.fetched = No, !.old = Refs(repo),
                            !.probes = 0, !.safedirs = 0, !.creates = 0,
                            !.title = "",
                            !.prev = IF "rg_fail" \in ev THEN "git" ELSE pc]
    /\ default_branch' = ""
    /\ UNCHANGED <<call, env, remote, prOpen, repo, fails, exts>>

(* ------------------------------ other actors -------------------------- *)
\* A step of another actor is placed right before a step of main() that
\* reads what it changes, or after the last such step; taken any earlier it
\* leads to the same states.

\* another actor pushes a commit of its own to the work branch
ExtPushWork ==
    /\ pc \in {"pb_fetch", "pb_push", "find_pr"}
    /\ exts < MaxExt
    /\ remote' = [remote EXCEPT !.work =
           NewCommit(remote.base, [TreeOf(remote.base) EXCEPT !.trk = 2], "ext", exts)]
    /\ exts' = exts + 1
    /\ ev' = ev \cup {"ext_work"}
                \cup (IF "push" \in ev THEN {"ext_after_push"} ELSE {})
    /\ UNCHANGED <<call, default_branch, env, prOpen, repo, pc, run, summary, exists, fails, hist>>

\* the default branch moves forward on the remote: the pull request is
\* merged, or else somebody commits a summary.txt of their own
ExtAdvanceBase ==
    /\ pc \in {"eg_pull", "cw_fetch", "cw_pull"}
    /\ exts < MaxExt
    /\ LET old == TreeOf(remote.base).art
           new == IF remote.work # No /\ TreeOf(remote.work).art # old
                  THEN TreeOf(remote.work).art
                  ELSE (old % MaxContent) + 1 IN
       remote' = [remote EXCEPT !.base =
           NewCommit(remote.base, [TreeOf(remote.base) EXCEPT !.art = new],
                     "base", exts + 1)]
    /\ exts' = exts + 1
    /\ ev' = ev \cup {"ext_base"}
    /\ hist' = [hist EXCEPT !.snap = <<>>, !.before = <<>>, !.rbase = remote'.base]
    /\ UNCHANGED <<call, default_branch, env, prOpen, repo, pc, run, summary, exists, fails>>

\* the open pull request is closed or merged
ExtClosePr ==
    /\ pc \in {"find_pr", "create_pr"}
    /\ exts < MaxExt
    /\ prOpen > 0
    /\ prOpen' = prOpen - 1
    /\ exts' = exts + 1
    /\ ev' = ev \cup {"ext_pr"}
                \cup (IF "find_pr" \in ev THEN {"ext_after_find"} ELSE {})
    /\ UNCHANGED <<call, default_branch, env, remote, repo, pc, run, summary, exists, fails, hist>>

(* ------------------------------ specification ------------------------- *)
Next ==
    \/ ResolveEnv \/ NewClient \/ ResolveDefaultBranch
    \/ Probe \/ SafeDirectory \/ Reprobe
    \/ EnsureInit \/ EnsureRemoteAdd \/ EnsureFetch \/ EnsureCheckout \/ EnsurePull
    \/ ConfigureGitUser \/ SetRemoteWithToken
    \/ ConvergeFetch \/ ConvergeCheckout \/ ConvergeReset \/ ConvergePull
    \/ ConvergeBranch
    \/ CheckKey \/ CreateSummary \/ WriteSummary \/ HasChanges
    \/ StageAdd \/ StageCommit \/ PushFetch \/ PushBranch
    \/ FindOpenPr \/ CreatePr
    \/ StartRun
    \/ ExtPushWork \/ ExtAdvanceBase \/ ExtClosePr

Spec == Init /\ [][Next]_vars

\* the steps of main() itself: a started run keeps executing, every command
\* and request it waits for returns (the requests carry timeout=15)
MainStep ==
    \/ ResolveEnv \/ NewClient \/ ResolveDefaultBranch
    \/ Probe \/ SafeDirectory \/ Reprobe
    \/ EnsureInit \/ EnsureRemoteAdd \/ EnsureFetch \/ EnsureCheckout \/ EnsurePull
    \/ ConfigureGitUser \/ SetRemoteWithToken
    \/ ConvergeFetch \/ ConvergeCheckout \/ ConvergeReset \/ ConvergePull
    \/ ConvergeBranch
    \/ CheckKey \/ CreateSummary \/ WriteSummary \/ HasChanges
    \/ StageAdd \/ StageCommit \/ PushFetch \/ PushBranch
    \/ FindOpenPr \/ CreatePr

\* one run of main() from any of the initial workspaces, with the other
\* actors around it
LiveNext == MainStep \/ ExtPushWork \/ ExtAdvanceBase \/ ExtClosePr

\* the runs of main() when the default branch is named WORK_BRANCH: every
\* command that names the work branch then names the default branch
AliasInit ==
    /\ \E a \in {0, 1} :
         /\ repo \in InitRepos(a) \ {Dirty(Drifted(a), d) : d \in {"clean", "untracked"}}
         /\ remote = [base |-> Root(a), work |-> No]
    /\ prOpen = 0
    /\ env = EnvAlias
    /\ pc = "env" /\ run = 1 /\ summary = 0 /\ exists = TRUE
    /\ ev = {} /\ fails = 0 /\ exts = 0
    /\ hist = [prAtStart |-> 0, snap |-> <<>>, made |-> No, pre |-> 0,
               pushed |-> "no", seen |-> No, lost |-> FALSE, prev |-> "none",
               before |-> <<>>, fetched |-> No, old |-> Refs(repo),
               probes |-> 0, safedirs |-> 0, creates |-> 0, title |-> "",
               rbase |-> remote.base]
    /\ default_branch = ""
    /\ call = NoCall

AliasNext == MainStep \/ StartRun \/ ExtAdvanceBase

AliasSpec == AliasInit /\ [][AliasNext]_vars

LiveSpec == Init /\ [][LiveNext]_vars /\ WF_vars(MainStep)

(* ------------------------------ GitHubClient -------------------------- *)
\* The methods of the client as functions of what they are given: the token
\* for the constructor, the response (status code and body) for the three
\* forge methods.  ClientSpec applies each method to each input.

\* status codes of every class, and the bodies resp.json() can meet: a JSON
\* object, a non-empty JSON list, the empty JSON list, no JSON at all
Codes == {100, 103, 200, 201, 204, 299, 300, 301, 304, 400, 404, 422, 500, 599}
Bodies == {"object", "list", "empty_list", "not_json"}

\* requests' Response.raise_for_status: HTTPError for 400..599 and for
\* nothing else
HTTPError(code) == 400 <= code /\ code < 600

\* get_default_branch: raise_for_status, resp.json(), data["default_branch"]
get_default_branch(code, body) ==
    IF HTTPError(code) THEN "HTTPError"
    ELSE IF body = "not_json" THEN "JSONDecodeError"
    ELSE IF body = "object" THEN "default_branch"
    ELSE "TypeError"

\* find_open_pr: raise_for_status, resp.json(), data[0] if data else None
find_open_pr_of(code, body) ==
    IF HTTPError(code) THEN "HTTPError"
    ELSE IF body = "not_json" THEN "JSONDecodeError"
    ELSE IF body = "empty_list" THEN "None"
    ELSE IF body = "list" THEN "pr"
    ELSE "KeyError"

\* create_pr: raise_for_status, resp.json(), pr_data.get('html_url')
create_pr_of(code, body) ==
    IF HTTPError(code) THEN "HTTPError"
    ELSE IF body = "not_json" THEN "JSONDecodeError"
    ELSE IF body = "object" THEN "pr"
    ELSE "AttributeError"

Returned == {"default_branch", "None", "pr"}

ForgeMethods == {"get_default_branch", "find_open_pr", "create_pr"}

ForgeCall ==
    /\ \E fn \in ForgeMethods, code \in Codes, body \in Bodies :
         call' = [fn |-> fn, code |-> code, body |-> body,
                  out |-> CASE fn = "get_default_branch" -> get_default_branch(code, body)
                            [] fn = "find_open_pr" -> find_open_pr_of(code, body)
                            [] OTHER -> create_pr_of(code, body)]
    /\ UNCHANGED <<default_branch, env, remote, prOpen, repo, pc, run, summary,
                   exists, ev, fails, exts, hist>>

\* a token is the sequence of its characters
ghp_ == <<"g", "h", "p", "_">>
github_pat_ == <<"g", "i", "t", "h", "u", "b", "_", "p", "a", "t", "_">>

\* str.startswith
startswith(str, prefix) ==
    Len(str) >= Len(prefix) /\ SubSeq(str, 1, Len(prefix)) = prefix

\* (variant) the earlier revision of the client: always Bearer
auth_type_bearer(token) == "Bearer"

\* GitHubClient.__init__: the scheme of the Authorization header
auth_type(token) ==
    IF startswith(token, ghp_) \/ startswith(token, github_pat_)
    THEN "token" ELSE "Bearer"

\* f"{auth_type} {token}"
Authorization(token) == <<auth_type(token), token>>

\* tokens with the two prefixes, with near misses of them, with neither
Heads == {<<>>, ghp_, github_pat_, <<"g", "h", "p">>, <<"g", "h", "s", "_">>,
          <<"G", "H", "P", "_">>, <<"x">> \o ghp_, <<"_">> \o github_pat_,
          SubSeq(github_pat_, 1, 10), SubSeq(github_pat_, 1, 6)}
RECURSIVE Tails(_)
Tails(n) ==
    IF n = 0 THEN {<<>>}
    ELSE Tails(n - 1) \cup {t \o <<c>> : t \in Tails(n - 1), c \in {"a", "_"}}
\* main() has refused the empty token
Tokens == {h \o t : h \in Heads, t \in Tails(MaxTail)} \ {<<>>}

NewClientCall ==
    /\ \E token \in Tokens :
         call' = [fn |-> "GitHubClient", token |-> token,
                  auth |-> Authorization(token)]
    /\ UNCHANGED <<default_branch, env, remote, prOpen, repo, pc, run, summary,
                   exists, ev, fails, exts, hist>>

ClientInit ==
    /\ env = EnvAll /\ repo = NoRepo
    /\ remote = [base |-> Root(0), work |-> No]
    /\ prOpen = 0 /\ pc = "env" /\ run = 1 /\ summary = 0 /\ exists = TRUE
    /\ ev = {} /\ fails = 0 /\ exts = 0
    /\ hist = [prAtStart |-> 0, snap |-> <<>>, made |-> No, pre |-> 0,
               pushed |-> "no", seen |-> No, lost |-> FALSE, prev |-> "none",
               before |-> <<>>, fetched |-> No, old |-> Refs(NoRepo),
               probes |-> 0, safedirs |-> 0, creates |-> 0, title |-> "",
               rbase |-> Root(0)]
    /\ default_branch = ""
    /\ call = NoCall

ClientNext == ForgeCall \/ NewClientCall

ClientSpec == ClientInit /\ [][ClientNext]_vars

(* ------------------------------ file_counter -------------------------- *)
\* count_files of src/file_counter.py as a function of the directory tree
\* under root.  A name is the sequence of its characters; a tree is the set
\* of its files, each the sequence of the names from root down to the file
\* (directories without files below them add nothing to the count).
dot_git == <<".", "g", "i", "t">>
node_modules == <<"n", "o", "d", "e", "_", "m", "o", "d", "u", "l", "e", "s">>
venv == <<"v", "e", "n", "v">>
dot_venv == <<".", "v", "e", "n", "v">>
pycache == <<"_", "_", "p", "y", "c", "a", "c", "h", "e", "_", "_">>
dot_cache == <<".", "c", "a", "c", "h", "e">>
src_dir == <<"s", "r", "c">>

EXCLUDED_DIRS == {dot_git, node_modules, venv, dot_venv, pycache}

\* directory names: ordinary, excluded by name, hidden without being excluded
DirNames == {src_dir, node_modules, dot_cache}
FileNames == {<<"f">>, <<".", "f">>}
RootNames == {src_dir, dot_git}

RECURSIVE DirSeqs(_)
DirSeqs(n) ==
    IF n = 0 THEN {<<>>}
    ELSE DirSeqs(n - 1) \cup {d \o <<x>> : d \in DirSeqs(n - 1), x \in DirNames}

Paths == {d \o <<f>> : d \in DirSeqs(MaxDepth), f \in FileNames}

RECURSIVE Trees(_)
Trees(n) ==
    IF n = 0 THEN {{}}
    ELSE Trees(n - 1) \cup {t \cup {p} : t \in Trees(n - 1), p \in Paths}

\* _is_hidden: name.startswith(".")
is_hidden(name) == startswith(name, <<".">>)

\* (variant) only the excluded names are pruned
keep_dir_unless_excluded(d) == d \notin EXCLUDED_DIRS

\* _walk_filtered: the directories os.walk is left to descend into
keep_dir(d) == d \notin EXCLUDED_DIRS /\ ~is_hidden(d)

\* what os.walk lists for the directory dir of the tree
filenames(tree, dir) ==
    {p \in tree : Len(p) = Len(dir) + 1 /\ SubSeq(p, 1, Len(dir)) = dir}
dirnames(tree, dir) ==
    {p[Len(dir) + 1] : p \in {q \in tree : /\ Len(q) > Len(dir) + 1
                                           /\ SubSeq(q, 1, Len(dir)) = dir}}

\* count_files over _walk_filtered: the files of dir that are not hidden,
\* plus the same for every directory of dir that is kept
RECURSIVE walk_filtered(_, _)
RECURSIVE walk_each(_, _, _)
walk_each(tree, dir, ds) ==
    IF ds = {} THEN 0
    ELSE LET d == CHOOSE x \in ds : TRUE IN
         walk_filtered(tree, dir \o <<d>>) + walk_each(tree, dir, ds \ {d})
walk_filtered(tree, dir) ==
    Cardinality({p \in filenames(tree, dir) : ~is_hidden(p[Len(p)])})
        + walk_each(tree, dir, {d \in dirnames(tree, dir) : keep_dir(d)})

\* the walk starts at root, whose own name it never looks at
count_files(root, tree) == walk_filtered(tree, <<>>)

\* one call in a behaviour: the function keeps nothing from call to call
CountFiles ==
    /\ call = NoCall
    /\ \E root \in RootNames, tree \in Trees(MaxFiles) :
         call' = [fn |-> "count_files", root |-> root, tree |-> tree,
                  out |-> count_files(root, tree)]
    /\ UNCHANGED <<default_branch, env, remote, prOpen, repo, pc, run, summary,
                   exists, ev, fails, exts, hist>>

CounterNext == CountFiles

CounterSpec == ClientInit /\ [][CounterNext]_vars

(* ------------------------------ properties ---------------------------- *)
Downstream == {"commit", "push", "find_pr", "create_pr"}

\* C1: no-op guarantee.  When the content main() writes to summary.txt is
\* the content the path already held after convergence (and git status
\* itself ran), the run issues no commit, no push, no find_open_pr and no
\* create_pr, and ends in the successful no-op state - whatever unrelated
\* files lie in the workspace.
C1_NoOpGuarantee ==
    ("write" \in ev /\ hist.pre = summary /\ "status_fail" \notin ev)
        => (ev \cap Downstream = {} /\ pc \in {"status", "noop"})

\* C2: push branch selection.  A push issued with --force finds no work
\* branch on the remote, and a push issued with --force-with-lease finds
\* one, whatever the preliminary fetch did.
C2_PushSelection ==
    /\ hist.pushed = "force" => hist.seen = No
    /\ hist.pushed = "lease" => hist.seen # No

\* C3: pull-request idempotence.  In a run that starts with an open pull
\* request for (WORK_BRANCH, default) which nobody closes during the run,
\* create_pr is never called and the number of open pull requests stays
\* what it was; there is never more than one open pull request.
C3_PrIdempotence ==
    /\ (hist.prAtStart > 0 /\ "ext_pr" \notin ev)
          => ("create_pr" \notin ev /\ prOpen = hist.prAtStart)
    /\ prOpen <= 1

C3_Witness ==
    /\ run = 2 /\ pc = "reused" /\ hist.prev = "created"
    /\ "push" \in ev /\ prOpen = 1

\* C4: exactly one commit.  The commit a run makes is the tip of the work
\* branch, its parent is the default-branch tip the convergence step
\* fetched, and the only path it changes is the artifact; a run that ends
\* "PR reused" or "PR created" has made such a commit.
C4_ExactlyOneCommit ==
    /\ hist.made # No =>
          /\ repo.work = hist.made
          /\ Parent(hist.made) = hist.fetched
          /\ ChangedPaths(hist.made) = {"art"}
    /\ pc \in {"reused", "created"} => hist.made # No

C4_Witness ==
    /\ pc \in {"reused", "created"}
    /\ hist.made # No
    /\ repo.wt.unt # 0
    /\ hist.old[1] = "work"

\* C5: convergence idempotence.  While the remote default branch does not
\* move (hist.snap and hist.before are forgotten when it does), every
\* completed checkout_work_branch leaves the same local ref state (HEAD,
\* local base, local work, origin/base) as the completed call before it,
\* whatever the workspace went through in between.
C5_ConvergenceIdempotent == hist.before # <<>> => hist.snap = hist.before

C5_Witness ==
    /\ pc = "key" /\ hist.before # <<>> /\ hist.prev \in {"reused", "created", "noop"}

\* C6: convergence postcondition.  When checkout_work_branch returns, HEAD
\* is on the work branch, the local base branch, the local work branch and
\* origin/base all point at the remote tip its last fetch saw, and no
\* commit made locally (drift on the base branch, a stale artifact commit)
\* is reachable from either branch.
C6_ConvergencePost ==
    pc = "key" =>
        /\ repo.head = "work"
        /\ repo.base = hist.fetched
        /\ repo.work = hist.fetched
        /\ repo.obase = hist.fetched
        /\ hist.fetched # No
        /\ ~HasLocal(repo.base)
        /\ ~HasLocal(repo.work)

\* the run started on a stale work branch with drift on the local base
\* branch, and the remote base branch had moved as well (diverged)
C6_Witness ==
    /\ pc = "key"
    /\ \E a \in {0, 1} : hist.old = <<"work", Drift(a), Stale(a), Root(a)>>
    /\ hist.fetched.n > 0

\* C7: converged end state.  When a run ends "PR reused" or "PR created" and
\* no other actor has pushed to the work branch after this run's push or
\* closed the pull request after this run's search, the remote work branch
\* is the artifact commit of this run, whose parent is the default-branch
\* tip this run fetched, and exactly one pull request is open.
C7_ConvergedEndState ==
    (pc \in {"reused", "created"} /\ ev \cap {"ext_after_push", "ext_after_find"} = {})
        => /\ hist.made # No
           /\ remote.work = hist.made
           /\ Parent(hist.made) = hist.fetched
           /\ prOpen = 1

\* a run that found a work branch on the remote and no pull request
C7_Witness ==
    /\ pc = "created" /\ hist.seen # No /\ hist.prAtStart = 0
    /\ remote.work = hist.made

\* C8: recovery.  A run that follows a run aborted by a git error, with
\* every value of the environment set and no failure caused by the
\* environment and no other actor during it, does not end fatal.
C8_Recovery ==
    (hist.prev = "git" /\ env = EnvAll /\ "inj" \notin ev
        /\ ev \cap {"ext_work", "ext_base", "ext_pr"} = {})
        => pc # "fatal"

\* C9: lease protection.  A push issued with --force-with-lease never
\* replaces a commit another actor pushed to the work branch.
C9_LeaseProtection == ~(hist.lost /\ hist.pushed = "lease")

\* C10, as stated: after any failed git command or forge request other than
\* the dubious-ownership probe, the run is in the fatal state.
FailureEvents ==
    {"rg_fail", "rest_fail", "probe_fail", "fetch_fail", "status_fail",
     "validate_fail", "artifact_fail"}

C10_AnyFailureIsFatal == ev \cap FailureEvents # {} => pc = "fatal"

\* C10, amended: a failed run_git call of main()'s own steps (not the probes
\* of is_git_repo, not the preliminary fetch of push_branch) and a failed
\* get_default_branch, find_open_pr or create_pr put the run in the fatal
\* state at once, and it stays there.
C10_ErrorPropagation == ev \cap {"rg_fail", "rest_fail"} # {} => pc = "fatal"

C10_Witness ==
    /\ pc = "fatal" /\ "rg_fail" \in ev /\ "commit" \in ev /\ "push" \notin ev
    /\ hist.made # No

\* C11: configuration failure has no side effects.  When the credential or
\* GITHUB_REPOSITORY is missing, no run gets past the check of the
\* environment: it is at the check or has ended fatal there, no git command
\* and no request has been issued (none has run, failed or been counted),
\* and the workspace, the remote and the forge are what they were.
C11_ConfigFailure ==
    ~(env.token /\ env.repo) =>
        /\ pc \in {"env", "fatal"}
        /\ ev \subseteq {"config_error"}
        /\ fails = 0 /\ summary = 0
        /\ repo = Clone(0) /\ remote.base = Root(0) /\ prOpen = 0

\* the second run as well dies at require_env("GITHUB_REPOSITORY")
C11_Witness ==
    /\ env.token /\ ~env.repo
    /\ run = 2 /\ pc = "fatal" /\ "config_error" \in ev

\* C12: artifact failure is non-fatal.  Whenever there is no LLM key or
\* create_summary fails or yields nothing (the README fetch, the completion
\* call, or any other error raised inside it), the run ends in the
\* successful no-op state and has written no artifact and issued no commit,
\* no push, no find_open_pr and no create_pr.
C12_ArtifactFailureNonFatal ==
    ev \cap {"no_key", "artifact_fail"} # {}
        => (pc = "noop" /\ ev \cap ({"write"} \cup Downstream) = {})

\* C13: forge error contract.  get_default_branch, find_open_pr and
\* create_pr raise for every response whose status code is outside
\* 200..299, and return a value only for a 2xx response.
C13_ForgeErrorContract ==
    (call.fn \in ForgeMethods /\ (call.code < 200 \/ call.code > 299))
        => call.out \notin Returned

\* C14: ownership remediation is bounded.  One call of is_git_repo runs the
\* probe at most twice and registers safe.directory at most once; the second
\* probe runs only after the first failed with "dubious ownership" and the
\* registration succeeded; the call returns True (main() goes on to
\* configure_git_user) exactly when a probe succeeded, returns False (git
\* init is next) otherwise, and no failure inside it ends the run.
C14_BoundedRemediation ==
    /\ hist.probes <= 2 /\ hist.safedirs <= 1
    /\ hist.probes = 2 => {"dubious", "safedir"} \subseteq ev
    /\ hist.safedirs = 1 => "dubious" \in ev
    /\ "probe_ok" \in ev => "probe_fail" \notin ev
    /\ pc = "init" => "probe_fail" \in ev
    /\ (pc = "identity" /\ "probe_fail" \notin ev) => "probe_ok" \in ev
    /\ (pc = "fatal" /\ hist.probes > 0) => ev \cap {"probe_ok", "probe_fail"} # {}

\* a workspace owned by another user: remediated, then found to be a
\* repository by the second probe
C14_Witness ==
    /\ pc = "identity" /\ hist.probes = 2 /\ hist.safedirs = 1
    /\ "probe_ok" \in ev /\ "inj" \notin ev

\* C15: workspace invariant.  Whenever ensure_git_repo has returned (main()
\* is about to run configure_git_user), the workspace has an 'origin'
\* remote and the default branch is checked out - whatever the workspace
\* was: no repository, a repository without remote, a repository on another
\* branch or on a detached HEAD.
C15_WorkspaceInvariant ==
    pc = "identity" => (repo.hasOrigin /\ repo.head = "base")

\* C16: default-branch override precedence.  With DEFAULT_BRANCH set,
\* get_default_branch is never called and the base branch of the run is the
\* override from its assignment to the end of the run (ensure, convergence,
\* pull-request search and creation all read that one variable); without
\* it, the base branch is the one the live lookup returned, and no step
\* after the assignment runs before the lookup has been made.
C16_OverridePrecedence ==
    /\ env.override =>
          ("get_default_branch" \notin ev /\ default_branch \in {"", "override"})
    /\ ~env.override => default_branch \in {"", "live"}
    /\ pc \notin {"env", "client", "defbranch", "fatal"} =>
          /\ default_branch # ""
          /\ env.override \/ "get_default_branch" \in ev

\* a run with the override that went as far as creating the pull request
C16_Witness ==
    /\ env.override /\ pc = "created" /\ default_branch = "override"
    /\ "create_pr" \in ev

\* C17: step ordering and at-most-once creation.  In every run create_pr is
\* called at most once and only after find_open_pr of this run returned no
\* match; find_open_pr is called only after push_branch of this run
\* succeeded; the push succeeded only after stage_and_commit made its
\* commit; the commit was made only after checkout_work_branch returned.
C17_StepOrdering ==
    /\ hist.creates <= 1
    /\ hist.creates = 1 <=> "create_pr" \in ev
    /\ "create_pr" \in ev => "find_none" \in ev
    /\ "find_none" \in ev => "find_pr" \in ev
    /\ "find_pr" \in ev => ("push" \in ev /\ hist.pushed # "no")
    /\ "push" \in ev => hist.made # No
    /\ hist.made # No => "converged" \in ev

\* a second run that had to create the pull request again, because the one
\* of the first run had been closed
C17_Witness ==
    /\ run = 2 /\ pc = "created" /\ hist.creates = 1
    /\ "find_none" \in ev /\ "push" \in ev /\ hist.prev \in {"created", "reused"}

\* C18: scenario C, progress.  A run that starts with credential,
\* repository and LLM key set eventually ends "PR reused" when a pull
\* request is open at its start, and "PR created" when none is, having made
\* its commit and pushed it - unless one of the claim's conditions fails on
\* the way: a command or request fails, nothing is produced, the summary is
\* the content the default branch already holds, or another actor steps in.
Excused ==
    \/ ev \cap {"inj", "rg_fail", "artifact_fail",
                "ext_work", "ext_base", "ext_pr"} # {}
    \/ "write" \in ev /\ summary = TreeOf(hist.fetched).art

Pushed == hist.made # No /\ "push" \in ev /\ remote.work = hist.made

C18_ScenarioC ==
    /\ (pc = "env" /\ env = EnvAll /\ prOpen = 1)
          ~> ((pc = "reused" /\ Pushed /\ prOpen = 1) \/ Excused)
    /\ (pc = "env" /\ env = EnvAll /\ prOpen = 0)
          ~> ((pc = "created" /\ Pushed /\ prOpen = 1) \/ Excused)

\* scenario C: the work branch and its pull request are there at the start
C18_Witness ==
    /\ pc = "reused" /\ hist.prAtStart = 1 /\ hist.seen # No
    /\ Pushed /\ ~Excused /\ hist.pushed = "lease"

\* C19: scenario A.  A first run on an empty workspace, with no work
\* branch on the remote and no pull request, that ends "PR created" has
\* made one commit adding the file 'file_count' and has opened a pull
\* request titled "chore: Update file_count".
C19_ScenarioA ==
    (run = 1 /\ pc = "created" /\ hist.old = Refs(NoRepo) /\ "inj" \notin ev
        /\ hist.seen = No /\ hist.prAtStart = 0)
        => /\ ChangedPaths(hist.made) = {"art"}
           /\ target_path = "file_count"
           /\ hist.title = "chore: Update file_count"

\* C21: the remote default branch is never modified.  Across all runs and
\* outcomes the tip of the remote default branch is the one other actors
\* last gave it: no step of main() moves it.
C21_DefaultBranchUntouched == remote.base = hist.rbase

\* C22: file count.  count_files is the number of files of the tree whose
\* own name does not start with '.' and none of whose directories below
\* root is named in EXCLUDED_DIRS or starts with '.', whatever root itself
\* is called.
C22_FileCount ==
    call.fn = "count_files" =>
        call.out = Cardinality({p \in call.tree :
                        /\ p[Len(p)][1] # "."
                        /\ \A i \in 1..(Len(p) - 1) :
                              p[i] \notin EXCLUDED_DIRS /\ p[i][1] # "."})

\* root is called .git; of the two files, the one in src counts and the one
\* in src below node_modules does not
C22_Witness ==
    /\ call.fn = "count_files" /\ call.root = dot_git /\ call.out = 1
    /\ call.tree = {<<src_dir, <<"f">>>>, <<node_modules, src_dir, <<"f">>>>}

\* C23: token validation never aborts the run.  Whatever GET /user did (200,
\* another status, an exception), the constructor returns and the run goes on
\* to the resolution of the default branch: a run whose validation failed is
\* never left at the construction of the client, and when such a run ends
\* fatal, a later step failed (a git command, a forge request, the summary).
C23_ValidationNeverAborts ==
    "validate_fail" \in ev =>
        /\ pc \notin {"env", "client"}
        /\ pc = "fatal" => ev \cap {"rg_fail", "rest_fail", "artifact_fail"} # {}

C23_Witness ==
    /\ "validate_fail" \in ev /\ "get_default_branch" \in ev
    /\ "commit" \in ev /\ pc = "created"

\* C20: auth scheme selection.  The Authorization header the client sends is
\* the scheme "token" followed by the token exactly when some initial part of
\* the token is 'ghp_' or 'github_pat_', and the scheme "Bearer" followed by
\* the token otherwise.
C20_AuthScheme ==
    call.fn = "GitHubClient" =>
        LET prefixed == \E n \in 0..Len(call.token) :
                           SubSeq(call.token, 1, n) \in {ghp_, github_pat_} IN
        /\ call.auth[2] = call.token
        /\ prefixed => call.auth[1] = "token"
        /\ ~prefixed => call.auth[1] = "Bearer"

\* a fine-grained personal access token: the longer prefix, with a tail
C20_Witness ==
    /\ call.fn = "GitHubClient"
    /\ call.auth[1] = "token"
    /\ Len(call.token) > Len(github_pat_)
    /\ SubSeq(call.token, 1, 4) # ghp_
====
